---- MODULE Spec2Model ----
(***************************************************************************)
(* Verification model of the Discord bot's poll voting, poll expiry and    *)
(* reminder scheduling code.  The repository carries two generations of    *)
(* the same subsystems: the original modules (handlers/, services/,        *)
(* botcore/, db/) and the feature-based rewrite (src/features/, src/core/).*)
(* Both are modelled; definitions are named after the functions they       *)
(* model, prefixed by the module when the name occurs twice.               *)
(***************************************************************************)
EXTENDS Integers, Sequences, FiniteSets, TLC

(***************************************************************************)
(* Bounds                                                                  *)
(***************************************************************************)
MaxTime == 2          \* the clock runs over 0..MaxTime (minutes)
MaxDuration == 2      \* poll durations are 1..MaxDuration minutes (or none)
MaxOptions == 2       \* polls have 2..MaxOptions options
MaxTokens == 2        \* a vote command lists at most MaxTokens tokens
MaxInterval == 1      \* interval reminders repeat every 1..MaxInterval minutes
MaxOccurrences == 2   \* max_occurrences is unset or 1..MaxOccurrences
MaxLogs == 3          \* a reminder with MaxLogs log rows is not executed any more

PollIds == {"p1", "p2"}
VotePoll == "p1"      \* the poll the voting specification votes on
Users == {"u1", "u2"}

None == -1            \* Python None for an optional integer / datetime
Times == 0..MaxTime
OptionCounts == 2..MaxOptions
OptionIdx == 0..(MaxOptions - 1)      \* option_index values that can be valid
EmojiIdx == 0..MaxOptions             \* regional-indicator emojis users may click
                                      \* (one more than any poll has options)

(***************************************************************************)
(* Command input: the comma separated text of /vote_poll, one token per    *)
(* comma separated piece.  A token is an integer, the empty string or a    *)
(* non-numeric piece.                                                      *)
(***************************************************************************)
EmptyTok == -1        \* a piece that is empty after strip()
BadTok == -2          \* a piece int() raises ValueError on
Tokens == {BadTok, EmptyTok} \cup (0..(MaxOptions + 1))
TokenInputs == UNION {[1..n -> Tokens] : n \in 1..MaxTokens}
IndexInputs == UNION {[1..n -> (-1)..MaxOptions] : n \in 0..MaxTokens}

VARIABLES
  now,        \* datetime.utcnow(), in minutes
  polls,      \* the polls table, by poll_id
  votes,      \* the votes table: number of rows per (poll_id, user_id, option_index)
  last,       \* history: the last handler that ran, its input and what it reported
  notices,    \* expiry notifications delivered to a poll's channel, per poll_id
  watch,      \* history: the last Expiry Watcher pass
  templates,  \* the reminder_templates table: the names that exist
  reminders,  \* the reminders table, by reminder_id
  jobs,       \* ReminderManager.scheduler: run_date of job reminder_<id>, or None
  service_jobs, \* ReminderService.scheduler: run_date of job reminder_<id>, or None
  logs,       \* the reminder_logs table: number of rows per reminder_id and status
  dispatched, \* reminder notifications delivered to a channel, per reminder_id
  rlast,      \* history: the last reminder operation that ran
  sessions,   \* the database sessions of the vote passes in progress, by pass
  passes,     \* the Expiry Watcher passes in progress, by watcher task
  runs        \* the runs of ReminderManager._execute_reminder in progress, by task

pollVars == <<polls, votes, last, notices, watch>>

reminderVars == <<templates, reminders, jobs, service_jobs, logs, dispatched, rlast>>

vars == <<now, polls, votes, last, notices, watch,
          templates, reminders, jobs, service_jobs, logs, dispatched, rlast, sessions,
          passes, runs>>

(***************************************************************************)
(* Sequences and bags                                                      *)
(***************************************************************************)
Range(s) == {s[i] : i \in DOMAIN s}

Count(s, x) == Cardinality({i \in DOMAIN s : s[i] = x})

Min(S) == CHOOSE x \in S : \A y \in S : x <= y

RECURSIVE SortedSeq(_)
SortedSeq(S) == IF S = {} THEN <<>> ELSE <<Min(S)>> \o SortedSeq(S \ {Min(S)})

(***************************************************************************)
(* Tables                                                                  *)
(***************************************************************************)
NoPoll == [exists |-> FALSE, is_active |-> FALSE, expires_at |-> None,
           nopts |-> 0, allow_multiple_votes |-> FALSE]

NoVotes == [i \in OptionIdx |-> 0]

Channels == {"none", "command", "reaction"}

\* history record of one handler run:
\*   op, poll, user   the handler and its (poll_id, user_id)
\*   arg              the reaction set it saw, or the option indices a command selected
\*   committed        the delete-then-insert was committed
\*   ok               the handler reported success to its caller
\*   raised           an exception escaped the handler
\*   why              the check that ended the run: "closed" (poll missing or inactive),
\*                    "expired", "format", "range", "single"; "none" otherwise
\*   stale            the run removed a row the user had before it
\*   repeat           the run is a reaction sync directly after a committed reaction sync
\*                    of the same pair that saw the same reaction set
\*   over             channel of the directly preceding committed pass of the same pair
\* a vote pass in progress, between the awaits of its handler:
\*   pc     "idle" (no pass), "checked" (poll loaded, input validated), "deleting"
\*          (its DELETE waits for a row lock), "deleted" (DELETE done, rows pending)
\*   ins    the option indices session.add was, or will be, called with
\*   del    the rows its DELETE statement removes, per option index
\*   waits  the pass whose commit its DELETE waits for
PassIds == {"a", "b"}
NoSession == [pc |-> "idle", op |-> "none", poll |-> "p1", user |-> "u1", arg |-> {},
              ins |-> <<>>, del |-> NoVotes, waits |-> "none"]

Idle == [op |-> "init", poll |-> "p1", user |-> "u1", arg |-> {}, committed |-> FALSE,
         ok |-> FALSE, raised |-> FALSE, why |-> "none", stale |-> FALSE, repeat |-> FALSE,
         over |-> "none"]

\* rows of (p, u): the set of option indices that have at least one row
VotedIdx(v, p, u) == {i \in OptionIdx : v[p][u][i] > 0}

RECURSIVE SumOver(_, _)
SumOver(f, S) == IF S = {} THEN 0
                 ELSE LET x == CHOOSE y \in S : TRUE IN f[x] + SumOver(f, S \ {x})

\* number of Vote rows of (p, u)
RowCount(v, p, u) == SumOver(v[p][u], OptionIdx)

\* mutant: the delete statement is never executed
DeleteVotes_skipped(v, p, u) == v

\* mutant: the delete filters on poll_id only
DeleteVotes_whole_poll(v, p, u) == [v EXCEPT ![p] = [w \in Users |-> NoVotes]]

\* delete(Vote).where(Vote.poll_id == poll_id, Vote.user_id == user_id)
DeleteVotes(v, p, u) == [v EXCEPT ![p][u] = NoVotes]

\* for option_index in <list>: session.add(Vote(...))   (one row per list element)
InsertVotes(v, p, u, idxs) ==
  [v EXCEPT ![p][u] = [i \in OptionIdx |-> @[i] + Count(idxs, i)]]

\* mutant: the new rows are appended to the old ones
ReplaceVotes_append(v, p, u, idxs) == InsertVotes(v, p, u, idxs)

\* the delete-then-insert replacement shared by every reconciliation pass
ReplaceVotes(v, p, u, idxs) == InsertVotes(DeleteVotes(v, p, u), p, u, idxs)

\* mutant: the handlers never look at expires_at
Expired_ignored(poll, t) == FALSE

\* poll.expires_at and datetime.utcnow() > poll.expires_at
Expired(poll, t) == poll.expires_at # None /\ t > poll.expires_at

\* 0x1F1E6 <= char_code <= 0x1F1F9, as an option index: char_code - 0x1F1E6
LastEmojiIdx == 19
RecognizedEmoji(e) == 0 <= e /\ e <= LastEmojiIdx

\* the methods class StatsModule defines
StatsModuleMethods == {"log_usage", "log_vote", "log_poll_creation", "top_voters",
                       "top_poll_creators", "get_stats_summary"}

\* the string names registered in the ServiceContainer (the registration of
\* 'StatsModule' by name is commented out in BotCore._setup_services)
RegisteredServiceNames == {"reminder_service"}

SyncOps == {"handlers_sync_reaction_votes", "features_sync_reaction_votes"}
CommandOps == {"vote_poll_command", "VotePollCommand", "PollService_vote"}

ChannelOf(op) == IF op \in SyncOps THEN "reaction"
                 ELSE IF op \in CommandOps THEN "command" ELSE "none"

\* the history record of one handler run
Entry(op, p, u, arg, committed, ok, raised, why) ==
          [op |-> op, poll |-> p, user |-> u,
           arg |-> IF committed THEN arg ELSE {}, committed |-> committed,
           ok |-> ok, raised |-> raised, why |-> why,
           stale |-> committed /\ VotedIdx(votes, p, u) \ VotedIdx(votes', p, u) # {},
           repeat |-> /\ committed /\ op \in SyncOps /\ last.op \in SyncOps
                      /\ last.committed /\ last.poll = p /\ last.user = u /\ last.arg = arg,
           over |-> IF committed /\ last.committed /\ last.poll = p /\ last.user = u
                    THEN ChannelOf(last.op) ELSE "none"]

\* history bookkeeping of one handler run that is one step
Note(op, p, u, arg, committed, ok, raised, why) ==
  /\ last' = Entry(op, p, u, arg, committed, ok, raised, why)
  /\ watch' = [watch EXCEPT !.fresh = FALSE]
  /\ UNCHANGED notices
  /\ UNCHANGED <<reminderVars, sessions, passes, runs>>

\* a run that got past every check of its handler
Record(op, p, u, arg, committed, ok, raised) ==
  Note(op, p, u, arg, committed, ok, raised, "none")

\* a run that ended at one of its handler's checks, with an error reply
Reject(op, p, u, why) == Note(op, p, u, {}, FALSE, FALSE, FALSE, why)

(***************************************************************************)
(* Environment                                                             *)
(***************************************************************************)
Tick ==
  /\ now < MaxTime
  /\ now' = now + 1
  /\ watch' = [watch EXCEPT !.fresh = FALSE]
  /\ UNCHANGED <<polls, votes, last, notices>>
  /\ UNCHANGED <<reminderVars, sessions, passes, runs>>

(***************************************************************************)
(* Polls and votes                                                         *)
(***************************************************************************)
PollOptionLimit == 20

PollService_create_poll(p, nopts, duration_minutes, allow_multiple) ==
  /\ ~polls[p].exists
  /\ nopts <= PollOptionLimit
  /\ polls' = [polls EXCEPT ![p] =
        [exists |-> TRUE, is_active |-> TRUE,
         expires_at |-> IF duration_minutes # None /\ duration_minutes # 0
                        THEN now + duration_minutes ELSE None,
         nopts |-> nopts, allow_multiple_votes |-> allow_multiple]]
  /\ UNCHANGED <<now, votes>>
  /\ Record("create_poll", p, "u1", {}, FALSE, TRUE, FALSE)

\* handlers/poll_commands.py
handlers_sync_reaction_votes(p, u, R) ==
  LET poll == polls[p]
      user_reactions == SortedSeq({e \in R : RecognizedEmoji(e)})
      valid_reactions == SelectSeq(user_reactions, LAMBDA idx : 0 <= idx /\ idx < poll.nopts)
      op == "handlers_sync_reaction_votes"
  IN IF ~poll.exists \/ ~poll.is_active
       THEN /\ UNCHANGED <<now, polls, votes>>
            /\ Reject(op, p, u, "closed")
     ELSE IF Expired(poll, now)
       THEN /\ polls' = [polls EXCEPT ![p].is_active = FALSE]
            /\ UNCHANGED <<now, votes>>
            /\ Reject(op, p, u, "expired")
     ELSE /\ votes' = ReplaceVotes(votes, p, u, valid_reactions)
          /\ UNCHANGED <<now, polls>>
          \* stats_module.log_vote_action(...) after the commit: an AttributeError
          \* is caught by the handler's except clause, which returns False
          /\ Record(op, p, u, R, TRUE, "log_vote_action" \in StatsModuleMethods, FALSE)

\* src/features/polls/commands/poll_commands.py
features_sync_reaction_votes(p, u, R) ==
  LET poll == polls[p]
      user_reactions == SortedSeq({e \in R : RecognizedEmoji(e)})
      valid_reactions == SelectSeq(user_reactions, LAMBDA idx : 0 <= idx /\ idx < poll.nopts)
      op == "features_sync_reaction_votes"
  IN IF ~poll.exists \/ ~poll.is_active
       THEN /\ UNCHANGED <<now, polls, votes>>
            /\ Reject(op, p, u, "closed")
     ELSE IF Expired(poll, now)
       THEN /\ polls' = [polls EXCEPT ![p].is_active = FALSE]
            /\ UNCHANGED <<now, votes>>
            /\ Reject(op, p, u, "expired")
     ELSE /\ votes' = ReplaceVotes(votes, p, u, valid_reactions)
          /\ UNCHANGED <<now, polls>>
          /\ Record(op, p, u, R, TRUE, TRUE, FALSE)

\* the 0-based option indices a command input selects: each non-empty piece, minus one
Selected(toks) == {t - 1 : t \in Range(toks) \ {EmptyTok, BadTok}}

\* handlers/poll_commands.py
vote_poll_command(p, u, toks) ==
  LET poll == polls[p]
      pieces == SelectSeq(toks, LAMBDA t : t # EmptyTok)       \* ... if x.strip()
      option_list == pieces                                     \* int(x.strip())
      invalid_options == SelectSeq(option_list, LAMBDA opt : opt < 1 \/ opt > poll.nopts)
      deduped == SortedSeq(Range(option_list))                  \* sorted(list(set(option_list)))
      op == "vote_poll_command"
  IN IF ~poll.exists \/ ~poll.is_active
       THEN /\ UNCHANGED <<now, polls, votes>>
            /\ Reject(op, p, u, "closed")
     ELSE IF Expired(poll, now)
       THEN /\ polls' = [polls EXCEPT ![p].is_active = FALSE]
            /\ UNCHANGED <<now, votes>>
            /\ Reject(op, p, u, "expired")
     ELSE IF BadTok \in Range(pieces)                           \* except ValueError
       THEN /\ UNCHANGED <<now, polls, votes>>
            /\ Reject(op, p, u, "format")
     ELSE IF invalid_options # <<>>
       THEN /\ UNCHANGED <<now, polls, votes>>
            /\ Reject(op, p, u, "range")
     ELSE /\ votes' = ReplaceVotes(votes, p, u, [i \in DOMAIN deduped |-> deduped[i] - 1])
          /\ UNCHANGED <<now, polls>>
          \* stats_module.log_vote_action(...) follows the commit outside any try:
          \* the AttributeError escapes, no reply and no reaction cleanup follow
          /\ Record(op, p, u, Selected(toks), TRUE,
                    "log_vote_action" \in StatsModuleMethods,
                    "log_vote_action" \notin StatsModuleMethods)

\* handlers/poll_commands.py, vote_poll_command after its commit: the options whose
\* reaction of the user the cleanup asks Discord to remove.  The cleanup follows
\* stats_module.log_vote_action(...) and loops over every old_option_indexes entry.
cleanup_removals(old_option_indexes) ==
  IF "log_vote_action" \in StatsModuleMethods THEN old_option_indexes ELSE {}

\* src/features/polls/commands/poll_commands.py, VotePollCommand.process_command
VotePollCommand_process_command(p, u, toks) ==
  LET poll == polls[p]
      option_list == [i \in DOMAIN toks |-> toks[i] - 1]       \* int(x.strip()) - 1
      invalid_options == SelectSeq(option_list, LAMBDA idx : idx < 0 \/ idx >= poll.nopts)
      op == "VotePollCommand"
  IN IF ~poll.exists \/ ~poll.is_active
       THEN /\ UNCHANGED <<now, polls, votes>>
            /\ Reject(op, p, u, "closed")
     ELSE IF Expired(poll, now)
       THEN /\ polls' = [polls EXCEPT ![p].is_active = FALSE]
            /\ UNCHANGED <<now, votes>>
            /\ Reject(op, p, u, "expired")
     ELSE IF BadTok \in Range(toks) \/ EmptyTok \in Range(toks)  \* except ValueError
       THEN /\ UNCHANGED <<now, polls, votes>>
            /\ Reject(op, p, u, "format")
     ELSE IF invalid_options # <<>>
       THEN /\ UNCHANGED <<now, polls, votes>>
            /\ Reject(op, p, u, "range")
     ELSE /\ votes' = ReplaceVotes(votes, p, u, option_list)
          /\ UNCHANGED <<now, polls>>
          \* interaction.client.services.get('StatsModule') follows the commit: the
          \* container raises for an unregistered name, BaseCommand.execute reports it
          /\ Record(op, p, u, Selected(toks), TRUE,
                    "StatsModule" \in RegisteredServiceNames, FALSE)

\* mutant: the indexes are not validated against the poll's options
PollService_vote_unvalidated(p, u, option_indexes) ==
  LET poll == polls[p]
      op == "PollService_vote"
  IN IF ~poll.exists \/ ~poll.is_active
       THEN /\ UNCHANGED <<now, polls, votes>>
            /\ Reject(op, p, u, "closed")
     ELSE IF Expired(poll, now)
       THEN /\ polls' = [polls EXCEPT ![p].is_active = FALSE]
            /\ UNCHANGED <<now, votes>>
            /\ Reject(op, p, u, "expired")
     ELSE /\ votes' = ReplaceVotes(votes, p, u, option_indexes)
          /\ UNCHANGED <<now, polls>>
          /\ Record(op, p, u, Range(option_indexes), TRUE, TRUE, FALSE)

\* src/features/polls/services/poll_service.py, PollService.vote (0-based indexes)
PollService_vote(p, u, option_indexes) ==
  LET poll == polls[p]
      invalid_options == SelectSeq(option_indexes, LAMBDA idx : idx < 0 \/ idx >= poll.nopts)
      op == "PollService_vote"
  IN IF ~poll.exists \/ ~poll.is_active
       THEN /\ UNCHANGED <<now, polls, votes>>
            /\ Reject(op, p, u, "closed")
     ELSE IF Expired(poll, now)
       THEN /\ polls' = [polls EXCEPT ![p].is_active = FALSE]
            /\ UNCHANGED <<now, votes>>
            /\ Reject(op, p, u, "expired")
     ELSE IF invalid_options # <<>>
       THEN /\ UNCHANGED <<now, polls, votes>>
            /\ Reject(op, p, u, "range")
     ELSE IF ~poll.allow_multiple_votes /\ Len(option_indexes) > 1
       THEN /\ UNCHANGED <<now, polls, votes>>
            /\ Reject(op, p, u, "single")
     ELSE /\ votes' = ReplaceVotes(votes, p, u, option_indexes)
          /\ UNCHANGED <<now, polls>>
          /\ Record(op, p, u, Range(option_indexes), TRUE, TRUE, FALSE)

\* poll_results_command / PollService.get_results: rows per option, over all users
get_results(v, p) ==
  [i \in OptionIdx |-> SumOver([u \in Users |-> v[p][u][i]], Users)]

(***************************************************************************)
(* Vote passes, one await at a time.  Every pass runs in its own           *)
(* AsyncSession, that is its own connection and transaction: the engine of *)
(* db/session.py is created without isolation_level, for PostgreSQL        *)
(* (postgresql+asyncpg) READ COMMITTED.  Table votes has no unique         *)
(* constraint and the handlers take no lock.                               *)
(***************************************************************************)
\* the passes of (p, u) other than k that hold row locks: DELETE done, not committed
LockHolders(k, p, u) ==
  {j \in PassIds \ {k} : /\ sessions[j].pc = "deleted"
                          /\ sessions[j].poll = p /\ sessions[j].user = u
                          /\ sessions[j].del # NoVotes}

\* the frame of a step that only moves a pass
PassFrame ==
  /\ watch' = [watch EXCEPT !.fresh = FALSE]
  /\ UNCHANGED <<now, notices>>
  /\ UNCHANGED <<reminderVars, passes, runs>>

\* handlers/poll_commands.py, sync_reaction_votes up to its DELETE: the poll is
\* loaded and checked, the reactions are read and filtered
sync_reaction_votes_begin(k, p, u, R) ==
  LET poll == polls[p]
      user_reactions == SortedSeq({e \in R : RecognizedEmoji(e)})
      valid_reactions == SelectSeq(user_reactions, LAMBDA idx : 0 <= idx /\ idx < poll.nopts)
      op == "handlers_sync_reaction_votes"
  IN /\ sessions[k].pc = "idle"
     /\ IF ~poll.exists \/ ~poll.is_active
          THEN /\ UNCHANGED <<polls, votes, sessions>>
               /\ last' = Entry(op, p, u, {}, FALSE, FALSE, FALSE, "closed")
        ELSE IF Expired(poll, now)
          THEN /\ polls' = [polls EXCEPT ![p].is_active = FALSE]
               /\ UNCHANGED <<votes, sessions>>
               /\ last' = Entry(op, p, u, {}, FALSE, FALSE, FALSE, "expired")
        ELSE /\ sessions' = [sessions EXCEPT ![k] =
                   [NoSession EXCEPT !.pc = "checked", !.op = op, !.poll = p, !.user = u,
                                     !.arg = R, !.ins = valid_reactions]]
             /\ UNCHANGED <<polls, votes, last>>
     /\ PassFrame

\* handlers/poll_commands.py, vote_poll_command up to its DELETE
vote_poll_command_begin(k, p, u, toks) ==
  LET poll == polls[p]
      pieces == SelectSeq(toks, LAMBDA t : t # EmptyTok)
      invalid_options == SelectSeq(pieces, LAMBDA opt : opt < 1 \/ opt > poll.nopts)
      deduped == SortedSeq(Range(pieces))
      op == "vote_poll_command"
  IN /\ sessions[k].pc = "idle"
     /\ IF ~poll.exists \/ ~poll.is_active
          THEN /\ UNCHANGED <<polls, votes, sessions>>
               /\ last' = Entry(op, p, u, {}, FALSE, FALSE, FALSE, "closed")
        ELSE IF Expired(poll, now)
          THEN /\ polls' = [polls EXCEPT ![p].is_active = FALSE]
               /\ UNCHANGED <<votes, sessions>>
               /\ last' = Entry(op, p, u, {}, FALSE, FALSE, FALSE, "expired")
        ELSE IF BadTok \in Range(pieces)
          THEN /\ UNCHANGED <<polls, votes, sessions>>
               /\ last' = Entry(op, p, u, {}, FALSE, FALSE, FALSE, "format")
        ELSE IF invalid_options # <<>>
          THEN /\ UNCHANGED <<polls, votes, sessions>>
               /\ last' = Entry(op, p, u, {}, FALSE, FALSE, FALSE, "range")
        ELSE /\ sessions' = [sessions EXCEPT ![k] =
                   [NoSession EXCEPT !.pc = "checked", !.op = op, !.poll = p, !.user = u,
                                     !.arg = Selected(toks),
                                     !.ins = [i \in DOMAIN deduped |-> deduped[i] - 1]]]
             /\ UNCHANGED <<polls, votes, last>>
     /\ PassFrame

\* mutant: the DELETE statement is committed on its own
DeleteVisible_autocommit(v, p, u, del) ==
  [v EXCEPT ![p][u] = [i \in OptionIdx |-> @[i] - del[i]]]

\* the committed table after await session.execute(delete(...)): the statement runs
\* inside the session's transaction, other sessions go on seeing the rows
DeleteVisible(v, p, u, del) == v

\* await session.execute(delete(Vote).where(poll_id, user_id)) of pass k: the rows
\* the statement sees are the committed rows of (poll, user); on rows another
\* pass has deleted and not committed it waits for that pass
execute_delete(k) ==
  LET s == sessions[k]
      seen == votes[s.poll][s.user]
      holders == LockHolders(k, s.poll, s.user)
  IN /\ s.pc = "checked"
     /\ sessions' = [sessions EXCEPT ![k] =
           IF holders = {}
             THEN [s EXCEPT !.pc = "deleted", !.del = seen]
             ELSE [s EXCEPT !.pc = "deleting", !.del = seen,
                            !.waits = CHOOSE j \in holders : TRUE]]
     /\ votes' = IF holders = {} THEN DeleteVisible(votes, s.poll, s.user, seen) ELSE votes
     /\ UNCHANGED <<polls, last>>
     /\ PassFrame

\* for option_index in ...: session.add(Vote(...)); await session.commit() of pass k,
\* and the statements of the handler that follow the commit.  The flush inserts the
\* new rows; the commit makes the DELETE and the INSERTs visible together and
\* releases the row locks: a DELETE that waited goes on without the rows that are
\* gone and without seeing the rows inserted meanwhile.
commit_pass(k) ==
  LET s == sessions[k]
      p == s.poll
      u == s.user
      flushed == [i \in OptionIdx |-> votes[p][u][i] - s.del[i] + Count(s.ins, i)]
      legacy_sync == s.op = "handlers_sync_reaction_votes"
  IN /\ s.pc = "deleted"
     /\ votes' = [votes EXCEPT ![p][u] = flushed]
     /\ sessions' = [j \in PassIds |->
           IF j = k THEN NoSession
           ELSE IF sessions[j].pc = "deleting" /\ sessions[j].waits = k
             THEN [sessions[j] EXCEPT
                      !.pc = "deleted", !.waits = "none",
                      !.del = [i \in OptionIdx |->
                                 IF sessions[j].del[i] > s.del[i]
                                   THEN sessions[j].del[i] - s.del[i] ELSE 0]]
           ELSE sessions[j]]
     \* stats_module.log_vote_action(...): caught in the sync (returns False),
     \* escaping from the command
     /\ last' = Entry(s.op, p, u, s.arg, TRUE, "log_vote_action" \in StatsModuleMethods,
                      ~legacy_sync /\ "log_vote_action" \notin StatsModuleMethods, "none")
     /\ UNCHANGED polls
     /\ PassFrame

(***************************************************************************)
(* Expiry Watcher                                                          *)
(***************************************************************************)
\* the orders in which a select without ORDER BY may return the polls
Orders == {s \in [1..Cardinality(PollIds) -> PollIds] : \A i, j \in DOMAIN s : s[i] = s[j] => i = j}

\* Poll.is_active == True, Poll.expires_at <= now   (NULL <= now selects nothing)
Due(poll, t) == poll.exists /\ poll.is_active /\ poll.expires_at # None /\ poll.expires_at <= t

\* a watcher pass in progress, between its select and the end of its loop:
\*   pc             "idle" (asleep) or "selected" (the select has returned)
\*   op             the watcher the task runs
\*   expired_polls  the list its select returned
WatcherIds == {"w1", "w2"}
NoWatcherPass == [pc |-> "idle", op |-> "none", expired_polls |-> <<>>]

\* history record of one watcher pass:
\*   fresh     nothing has happened since the pass
\*   due       the polls its select returned
\*   aborted   an exception ended the pass before the end of the loop
NoPass == [op |-> "none", fresh |-> FALSE, due |-> {}, aborted |-> FALSE]

\* botcore/bot.py, BotCore.check_expired_polls: one iteration of the while loop.
\* unreachable: polls whose channel is unknown or not writable; failing: polls whose
\* channel.send raises.  The send sits in its own try/except; one commit ends the loop.
check_expired_polls(order, unreachable, failing) ==
  LET expired_polls == SelectSeq(order, LAMBDA p : Due(polls[p], now))
      closed == Range(expired_polls)
  IN /\ polls' = [p \in PollIds |->
                    IF p \in closed THEN [polls[p] EXCEPT !.is_active = FALSE] ELSE polls[p]]
     /\ notices' = [p \in PollIds |->
                    IF p \in closed \ (unreachable \cup failing)
                      THEN notices[p] + 1 ELSE notices[p]]
     /\ watch' = [op |-> "check_expired_polls", fresh |-> TRUE, due |-> closed,
                  aborted |-> FALSE]
     /\ UNCHANGED <<now, votes, last>>
     /\ UNCHANGED <<reminderVars, sessions, passes, runs>>

\* position of the first poll of the list whose notification raises, or 0
FirstFailure(expired_polls, unreachable, failing) ==
  LET bad == {i \in DOMAIN expired_polls :
                 expired_polls[i] \in failing \ unreachable}
  IN IF bad = {} THEN 0 ELSE Min(bad)

\* src/core/bot.py, BotCore._poll_expiry_checker: one iteration of the while loop.
\* Each poll is set inactive and committed, then notified; the send is not guarded, so
\* an exception leaves the loop for the outer except clause.
poll_expiry_checker(order, unreachable, failing) ==
  LET expired_polls == SelectSeq(order, LAMBDA p : Due(polls[p], now))
      stop == FirstFailure(expired_polls, unreachable, failing)
      done == IF stop = 0 THEN Len(expired_polls) ELSE stop
      closed == {expired_polls[i] : i \in 1..done}
  IN /\ polls' = [p \in PollIds |->
                    IF p \in closed THEN [polls[p] EXCEPT !.is_active = FALSE] ELSE polls[p]]
     /\ notices' = [p \in PollIds |->
                    IF p \in closed \ (unreachable \cup failing)
                      THEN notices[p] + 1 ELSE notices[p]]
     /\ watch' = [op |-> "poll_expiry_checker", fresh |-> TRUE,
                  due |-> Range(expired_polls), aborted |-> stop # 0]
     /\ UNCHANGED <<now, votes, last>>
     /\ UNCHANGED <<reminderVars, sessions, passes, runs>>

\* A watcher task is created by every on_ready (botcore/bot.py:65,
\* src/core/bot.py:164): after a reconnect several loops run in one process and their
\* passes interleave at their awaits.  The steps below split a pass at its select.

\* the frame of a step of a watcher task
WatcherFrame ==
  /\ UNCHANGED <<now, votes, last, watch, sessions, runs>>
  /\ UNCHANGED reminderVars

\* result = await session.execute(select(Poll).where(is_active, expires_at <= now))
watcher_select(w, op, order) ==
  /\ passes[w].pc = "idle"
  /\ passes' = [passes EXCEPT ![w] =
        [pc |-> "selected", op |-> op,
         expired_polls |-> SelectSeq(order, LAMBDA p : Due(polls[p], now))]]
  /\ UNCHANGED <<polls, notices>>
  /\ WatcherFrame

\* botcore/bot.py, check_expired_polls: the for loop over the list the select
\* returned and the commit that ends the pass
check_expired_polls_loop(w, unreachable, failing) ==
  LET closed == Range(passes[w].expired_polls)
  IN /\ passes[w].pc = "selected" /\ passes[w].op = "check_expired_polls"
     /\ polls' = [p \in PollIds |->
                    IF p \in closed THEN [polls[p] EXCEPT !.is_active = FALSE] ELSE polls[p]]
     /\ notices' = [p \in PollIds |->
                    IF p \in closed \ (unreachable \cup failing)
                      THEN notices[p] + 1 ELSE notices[p]]
     /\ passes' = [passes EXCEPT ![w] = NoWatcherPass]
     /\ WatcherFrame

\* src/core/bot.py, _poll_expiry_checker: the for loop over the list the select
\* returned, left at the first send that raises
poll_expiry_checker_loop(w, unreachable, failing) ==
  LET expired_polls == passes[w].expired_polls
      stop == FirstFailure(expired_polls, unreachable, failing)
      done == IF stop = 0 THEN Len(expired_polls) ELSE stop
      closed == {expired_polls[i] : i \in 1..done}
  IN /\ passes[w].pc = "selected" /\ passes[w].op = "poll_expiry_checker"
     /\ polls' = [p \in PollIds |->
                    IF p \in closed THEN [polls[p] EXCEPT !.is_active = FALSE] ELSE polls[p]]
     /\ notices' = [p \in PollIds |->
                    IF p \in closed \ (unreachable \cup failing)
                      THEN notices[p] + 1 ELSE notices[p]]
     /\ passes' = [passes EXCEPT ![w] = NoWatcherPass]
     /\ WatcherFrame

(***************************************************************************)
(* Reminders                                                               *)
(***************************************************************************)
RemIds == {"r1"}
RemOrder == <<"r1">>                \* the order in which fresh uuids are drawn
TemplateNames == {"t1"}
NoTarget == "none"                  \* target_id of a custom reminder
TriggerTypes == {"specific_time", "time_before", "interval"}
GraceMinutes == 5                   \* the sweep's window: timedelta(minutes=5)

NoReminder ==
  [exists |-> FALSE, is_active |-> FALSE, template |-> "none", target_id |-> NoTarget,
   trigger_type |-> "none", trigger_time |-> None, time_before_minutes |-> None,
   interval_minutes |-> None, is_recurring |-> FALSE, max_occurrences |-> None,
   occurrence_count |-> 0, last_triggered |-> None, next_trigger |-> None]

NoLogs == [sent |-> 0, success |-> 0, failed |-> 0]

\* a run of ReminderManager._execute_reminder in progress, between its load and its
\* commit:
\*   pc        "idle" (no run) or "loaded" (the reminder row is loaded and passed the
\*             is_active check, the run awaits channel.send)
\*   rid       the reminder_id the run was entered with
\*   reminder  the row as the run's session loaded it
RunIds == {"job", "sweep"}
NoExecution == [pc |-> "idle", rid |-> "none", reminder |-> NoReminder]

\* history record of one reminder operation:
\*   op, rid   the operation and the reminder it was about ("none": no reminder)
\*   result    "true" / "false" for cancel; for the other operations "raised" (an
\*             exception left it), "noop" (the executor returned at its load check)
\*             or "returned"
\*   error     error_message of the last 'failed' log row the operation appended
\*   text      message text of the last notification the operation dispatched
NoRun == [op |-> "none", rid |-> "none", result |-> "returned", error |-> "none",
          text |-> "none"]

LogCount(l, r) == l[r].sent + l[r].success + l[r].failed

\* the reminder part of the database and the two schedulers, with the effects
\* of the operation in progress
Store ==
  [reminders |-> reminders, jobs |-> jobs, service_jobs |-> service_jobs, logs |-> logs,
   dispatched |-> dispatched, raised |-> FALSE, error |-> "none", text |-> "none"]

Commit(st, op, rid, result) ==
  /\ reminders' = st.reminders
  /\ jobs' = st.jobs
  /\ service_jobs' = st.service_jobs
  /\ logs' = st.logs
  /\ dispatched' = st.dispatched
  /\ rlast' = [op |-> op, rid |-> rid, result |-> result, error |-> st.error,
               text |-> st.text]

\* _log_reminder(reminder_id, status, ...): one ReminderLog row, committed on its own
log_reminder(st, r, status) ==
  [st EXCEPT !.logs[r][status] = @ + 1]

\* mutant: a failure appends no log row
log_failure_silent(st, r, error_message) == st

\* _log_reminder(reminder_id, 'failed', error_message)
log_failure(st, r, error_message) ==
  [log_reminder(st, r, "failed") EXCEPT !.error = error_message]

\* error texts: the two literals of the executors, and str(e) of the exceptions
TemplateNotFound == "Template not found"
ChannelNotFound == "Channel not found"
SendError == "channel.send raised"
MissingKey == "'missing_key'"                       \* str(KeyError('missing_key'))
PollUnbound == "name 'Poll' is not defined"
NoLogReminderSent == "'StatsModule' object has no attribute 'log_reminder_sent'"

\* message texts
Rendered == "rendered"
TemplateError == "Template error: Missing variable 'missing_key'"

\* ReminderManager.create_template / ReminderService.create_template
create_template(name) ==
  /\ name \notin templates
  /\ templates' = templates \cup {name}
  /\ rlast' = [NoRun EXCEPT !.op = "create_template"]
  /\ UNCHANGED <<reminders, jobs, service_jobs, logs, dispatched>>
  /\ UNCHANGED <<now, polls, votes, last, notices, watch, sessions, passes, runs>>

\* str(uuid.uuid4()): an id no reminder has
FreshIds == {i \in DOMAIN RemOrder : ~reminders[RemOrder[i]].exists}
FreshId == RemOrder[Min(FreshIds)]

\* ReminderManager._calculate_time_before_trigger: the next_trigger it assigns
calculate_time_before_trigger(target_id, time_before_minutes, t) ==
  IF target_id # NoTarget /\ polls[target_id].exists /\ polls[target_id].expires_at # None
    THEN LET trigger_time == polls[target_id].expires_at - time_before_minutes
         IN IF trigger_time > t THEN trigger_time ELSE None
    ELSE None

\* mutant: no job is ever registered
schedule_reminder_never(js, r, next_trigger, t) == js

\* ReminderManager._schedule_reminder: the scheduler's jobs after the call
schedule_reminder(js, r, next_trigger, t) ==
  IF next_trigger = None \/ next_trigger <= t THEN js
  ELSE [js EXCEPT ![r] = next_trigger]           \* add_job(..., replace_existing=True)

\* ReminderManager._create_reminder
ReminderManager_create_reminder(template_name, target_id, trigger_type, trigger_kwargs) ==
  LET trigger_time == trigger_kwargs.trigger_time
      minutes_before == trigger_kwargs.minutes_before
      interval_minutes == trigger_kwargs.interval_minutes
      max_occurrences == trigger_kwargs.max_occurrences
      op == "ReminderManager_create_reminder"
  IN
  IF template_name \notin templates                  \* raise ValueError
    THEN /\ rlast' = [NoRun EXCEPT !.op = op, !.result = "raised"]
         /\ UNCHANGED <<templates, reminders, jobs, service_jobs, logs, dispatched>>
         /\ UNCHANGED <<now, polls, votes, last, notices, watch, sessions, passes, runs>>
  ELSE LET r == FreshId
           base == [NoReminder EXCEPT !.exists = TRUE, !.is_active = TRUE,
                       !.template = template_name, !.target_id = target_id,
                       !.trigger_type = trigger_type]
           reminder ==
             IF trigger_type = "specific_time"
               THEN [base EXCEPT !.trigger_time = trigger_time,
                                 !.next_trigger = trigger_time]
             ELSE IF trigger_type = "time_before"
               THEN [base EXCEPT !.time_before_minutes = minutes_before,
                       !.next_trigger =
                          calculate_time_before_trigger(target_id, minutes_before, now)]
             ELSE [base EXCEPT !.interval_minutes = interval_minutes,
                               !.is_recurring = TRUE,
                               !.max_occurrences = max_occurrences,
                               !.next_trigger = now + interval_minutes]
       IN /\ FreshIds # {}
          /\ reminders' = [reminders EXCEPT ![r] = reminder]
          /\ jobs' = schedule_reminder(jobs, r, reminder.next_trigger, now)
          /\ rlast' = [NoRun EXCEPT !.op = op, !.rid = r]
          /\ UNCHANGED <<templates, service_jobs, logs, dispatched>>
          /\ UNCHANGED <<now, polls, votes, last, notices, watch, sessions, passes, runs>>

\* the names reminder_service.py binds at module level (its imports and classes)
ReminderServiceGlobals ==
  {"asyncio", "datetime", "timedelta", "Optional", "List", "Dict", "Any", "Enum",
   "discord", "AsyncIOScheduler", "Reminder", "ReminderTemplate", "ReminderLog",
   "AsyncSessionLocal", "EmbedBuilder", "ReminderPriority", "TriggerType",
   "ReminderService"}

\* ReminderService.create_reminder: get_template evaluates select(...) first; a name
\* the module does not bind raises NameError before any row is added
ReminderService_create_reminder(template_name, target_id, trigger_type, trigger_kwargs) ==
  LET trigger_time == trigger_kwargs.trigger_time
      minutes_before == trigger_kwargs.minutes_before
      interval_minutes == trigger_kwargs.interval_minutes
      max_occurrences == trigger_kwargs.max_occurrences
      op == "ReminderService_create_reminder"
  IN
  IF "select" \notin ReminderServiceGlobals \/ "uuid" \notin ReminderServiceGlobals
    THEN /\ rlast' = [NoRun EXCEPT !.op = op, !.result = "raised"]
         /\ UNCHANGED <<templates, reminders, jobs, service_jobs, logs, dispatched>>
         /\ UNCHANGED <<now, polls, votes, last, notices, watch, sessions, passes, runs>>
  ELSE IF template_name \notin templates
    THEN /\ rlast' = [NoRun EXCEPT !.op = op, !.result = "raised"]
         /\ UNCHANGED <<templates, reminders, jobs, service_jobs, logs, dispatched>>
         /\ UNCHANGED <<now, polls, votes, last, notices, watch, sessions, passes, runs>>
  ELSE LET r == FreshId
           base == [NoReminder EXCEPT !.exists = TRUE, !.is_active = TRUE,
                       !.template = template_name, !.target_id = target_id,
                       !.trigger_type = trigger_type, !.trigger_time = trigger_time,
                       !.time_before_minutes = minutes_before,
                       !.interval_minutes = interval_minutes,
                       !.max_occurrences = max_occurrences]
           \* _calculate_next_trigger
           reminder ==
             IF trigger_type = "specific_time"
               THEN [base EXCEPT !.next_trigger = trigger_time]
             ELSE IF trigger_type = "interval"
               THEN [base EXCEPT !.next_trigger = now + interval_minutes,
                                 !.is_recurring = TRUE]
             ELSE IF target_id # NoTarget /\ polls[target_id].exists
                     /\ polls[target_id].expires_at # None
               THEN [base EXCEPT !.next_trigger =
                                    polls[target_id].expires_at - minutes_before]
             ELSE base
       IN /\ FreshIds # {}
          /\ reminders' = [reminders EXCEPT ![r] = reminder]
          /\ service_jobs' = schedule_reminder(service_jobs, r, reminder.next_trigger, now)
          /\ rlast' = [NoRun EXCEPT !.op = op, !.rid = r]
          /\ UNCHANGED <<templates, jobs, logs, dispatched>>
          /\ UNCHANGED <<now, polls, votes, last, notices, watch, sessions, passes, runs>>

\* mutant: every reminder row passes the executor's load check
Loadable_always(reminder) == TRUE

\* if not reminder or not reminder.is_active: return
Loadable(reminder) == reminder.exists /\ reminder.is_active

\* mutant: the recurrence decision never ends the recurrence
Delivered_uncapped(reminder, t) ==
  [reminder EXCEPT !.last_triggered = t, !.occurrence_count = @ + 1,
                   !.next_trigger = IF reminder.is_recurring
                                      THEN t + reminder.interval_minutes ELSE @,
                   !.is_active = reminder.is_recurring]

\* the reminder row after a delivered notification, shared by both executors:
\* last_triggered, occurrence_count += 1, then the recurrence decision
Delivered(reminder, t) ==
  LET counted == [reminder EXCEPT !.last_triggered = t,
                                  !.occurrence_count = @ + 1]
  IN IF counted.is_recurring
       THEN IF counted.max_occurrences = None
               \/ counted.occurrence_count < counted.max_occurrences
              THEN [counted EXCEPT !.next_trigger = t + counted.interval_minutes]
              ELSE [counted EXCEPT !.is_active = FALSE]
       ELSE [counted EXCEPT !.is_active = FALSE]

\* ReminderManager._execute_reminder on store st.  unreachable: reminders whose
\* channel get_channel does not find; failing: reminders whose channel.send raises;
\* unrendered: reminders whose template has a placeholder the context lacks.
ReminderManager_execute_reminder(st, r, unreachable, failing, unrendered) ==
  LET reminder == st.reminders[r]
      \* _build_message_content: try: format(**context) except KeyError as e: ...
      message_text == IF r \in unrendered THEN TemplateError ELSE Rendered
  IN
  IF ~Loadable(reminder) THEN st
  ELSE IF reminder.template \notin templates
    THEN log_failure(st, r, TemplateNotFound)
  ELSE IF r \in unreachable
    THEN log_failure(st, r, ChannelNotFound)
  ELSE IF r \in failing
    THEN log_failure(st, r, SendError)                \* except Exception
  ELSE LET updated == Delivered(reminder, now)
           rescheduled == updated.is_active
           committed ==
             [st EXCEPT !.reminders[r] = updated,
                        !.dispatched[r] = @ + 1,
                        !.text = message_text,
                        !.jobs = IF rescheduled
                                   THEN schedule_reminder(@, r, updated.next_trigger, now)
                                   ELSE @]
           logged == log_reminder(committed, r, "sent")
       IN \* self.stats_module.log_reminder_sent(...) follows inside the try: the
          \* AttributeError is caught and logged as a failure
          IF "log_reminder_sent" \in StatsModuleMethods
            THEN logged ELSE log_failure(logged, r, NoLogReminderSent)

\* ReminderService._execute_reminder on store st.  unrendered: reminders whose
\* custom_data lacks a placeholder of the template (str.format raises KeyError).
\* Every exception is logged as a failure and raised again.
ReminderService_execute_reminder(st, r, unreachable, failing, unrendered) ==
  LET reminder == st.reminders[r] IN
  IF ~Loadable(reminder) THEN st
  ELSE IF reminder.template \notin templates
    THEN log_failure(st, r, TemplateNotFound)
  ELSE IF reminder.target_id # NoTarget /\ "Poll" \notin ReminderServiceGlobals
    THEN [log_failure(st, r, PollUnbound) EXCEPT !.raised = TRUE]
  ELSE IF r \in unrendered                           \* _build_message_content raises
    THEN [log_failure(st, r, MissingKey) EXCEPT !.raised = TRUE]
  ELSE IF r \in unreachable
    THEN log_failure(st, r, ChannelNotFound)
  ELSE IF r \in failing
    THEN [log_failure(st, r, SendError) EXCEPT !.raised = TRUE]
  ELSE LET updated == Delivered(reminder, now)
           rescheduled == updated.is_active
           committed ==
             [st EXCEPT !.reminders[r] = updated,
                        !.dispatched[r] = @ + 1,
                        !.text = Rendered,
                        !.service_jobs =
                           IF rescheduled
                             THEN schedule_reminder(@, r, updated.next_trigger, now)
                             ELSE @]
       IN log_reminder(committed, r, "success")

\* the reminders a run would get past the load check for have room in the log
LogRoom(rs) ==
  \A r \in rs : (reminders[r].exists /\ reminders[r].is_active)
                    => LogCount(logs, r) < MaxLogs

\* how a run of the executor on r ended
Outcome(st, r) ==
  IF st.raised THEN "raised"
  ELSE IF reminders[r].exists /\ reminders[r].is_active THEN "returned" ELSE "noop"

\* ReminderManager.scheduler runs job reminder_<r>: a date job leaves the job store
\* when it is run
ReminderManager_job(r, unreachable, failing, unrendered) ==
  /\ jobs[r] # None
  /\ jobs[r] <= now
  /\ LogRoom({r})
  /\ LET st == ReminderManager_execute_reminder(
                   [Store EXCEPT !.jobs[r] = None], r, unreachable, failing, unrendered)
     IN Commit(st, "ReminderManager_job", r, Outcome(st, r))
  /\ UNCHANGED <<templates, now, polls, votes, last, notices, watch, sessions, passes, runs>>

RECURSIVE ExecuteAll(_, _, _, _, _)
ExecuteAll(st, rs, unreachable, failing, unrendered) ==
  IF rs = <<>> THEN st
  ELSE ExecuteAll(ReminderManager_execute_reminder(st, Head(rs), unreachable, failing,
                                                   unrendered),
                  Tail(rs), unreachable, failing, unrendered)

RemOrders == {s \in [1..Cardinality(RemIds) -> RemIds] : \A i, j \in DOMAIN s : s[i] = s[j] => i = j}

\* ReminderManager._check_pending_reminders, the sweep job run every minute
ReminderManager_check_pending_reminders(order, unreachable, failing, unrendered) ==
  LET missed_reminders ==
        SelectSeq(order, LAMBDA r :
           /\ reminders[r].exists /\ reminders[r].is_active
           /\ reminders[r].next_trigger # None
           /\ reminders[r].next_trigger <= now
           /\ reminders[r].next_trigger > now - GraceMinutes)
  IN /\ LogRoom(Range(missed_reminders))
     /\ Commit(ExecuteAll(Store, missed_reminders, unreachable, failing, unrendered),
               "ReminderManager_check_pending_reminders", "none", "returned")
     /\ UNCHANGED <<templates, now, polls, votes, last, notices, watch, sessions, passes, runs>>

\* ReminderService._check_pending_reminders: select is not bound in the module, the
\* NameError ends the job before any reminder is loaded
ReminderService_check_pending_reminders ==
  /\ "select" \notin ReminderServiceGlobals
  /\ Commit([Store EXCEPT !.raised = TRUE],
            "ReminderService_check_pending_reminders", "none", "raised")
  /\ UNCHANGED <<templates, now, polls, votes, last, notices, watch, sessions, passes, runs>>

\* ReminderManager.cancel_reminder
ReminderManager_cancel_reminder(r) ==
  /\ IF ~reminders[r].exists
       THEN Commit(Store, "ReminderManager_cancel_reminder", r, "false")
       ELSE Commit([Store EXCEPT !.reminders[r].is_active = FALSE,
                                 !.jobs[r] = None],        \* try: remove_job except: pass
                   "ReminderManager_cancel_reminder", r, "true")
  /\ UNCHANGED <<templates, now, polls, votes, last, notices, watch, sessions, passes, runs>>

\* ReminderService.cancel_reminder: remove_job is called unguarded and raises
\* JobLookupError when the scheduler has no job of that id
ReminderService_cancel_reminder(r) ==
  /\ IF ~reminders[r].exists
       THEN Commit(Store, "ReminderService_cancel_reminder", r, "false")
       ELSE IF service_jobs[r] = None
         THEN Commit([Store EXCEPT !.reminders[r].is_active = FALSE, !.raised = TRUE],
                     "ReminderService_cancel_reminder", r, "raised")
       ELSE Commit([Store EXCEPT !.reminders[r].is_active = FALSE,
                                 !.service_jobs[r] = None],
                   "ReminderService_cancel_reminder", r, "true")
  /\ UNCHANGED <<templates, now, polls, votes, last, notices, watch, sessions, passes, runs>>

\* a reminder the sweep is to execute: active, its trigger passed within the grace
\* window
Missed(reminder, t) ==
  /\ reminder.exists /\ reminder.is_active
  /\ reminder.next_trigger # None
  /\ reminder.next_trigger <= t
  /\ reminder.next_trigger > t - GraceMinutes

\* the rows _reschedule_existing_reminders selects:
\* select(Reminder).where(is_active == True, next_trigger > utcnow())
Pending(reminder, t) ==
  /\ reminder.exists /\ reminder.is_active
  /\ reminder.next_trigger # None /\ reminder.next_trigger > t

\* the job store after _reschedule_existing_reminders on an empty scheduler:
\* _schedule_reminder for each selected row
Rebuilt(rs, t) ==
  [r \in RemIds |-> IF Pending(rs[r], t)
                      THEN schedule_reminder([q \in RemIds |-> None], r,
                                             rs[r].next_trigger, t)[r]
                      ELSE None]

\* ReminderManager.start in a new process (AsyncIOScheduler() keeps its jobs in
\* memory: the new scheduler is empty, and no run of the old process goes on)
ReminderManager_start ==
  /\ Commit([Store EXCEPT !.jobs = Rebuilt(reminders, now)],
            "ReminderManager_start", "none", "returned")
  /\ runs' = [e \in RunIds |-> NoExecution]
  /\ UNCHANGED <<templates, now, polls, votes, last, notices, watch, sessions, passes>>

\* ReminderService.init in a new process: _reschedule_existing_reminders evaluates
\* select(...), a name the module does not bind, and init ends with the NameError
ReminderService_init ==
  /\ "select" \notin ReminderServiceGlobals
  /\ Commit([Store EXCEPT !.service_jobs = [r \in RemIds |-> None], !.raised = TRUE],
            "ReminderService_init", "none", "raised")
  /\ UNCHANGED <<templates, now, polls, votes, last, notices, watch, sessions, passes, runs>>

\* mutant: the commit of a run writes the whole row as the run holds it
Written_whole(row, loaded, updated) == updated

\* session.commit() of a run that loaded the row as `loaded` and holds it as
\* `updated`: the UPDATE sets the attributes the run changed, the other columns keep
\* what is committed
Written(row, loaded, updated) ==
  [f \in DOMAIN row |-> IF updated[f] # loaded[f] THEN updated[f] ELSE row[f]]

\* ReminderManager._execute_reminder up to its load check, entered by the date job
\* reminder_<r> (e = "job", the job leaves the job store) or by the sweep for a
\* row it selected (e = "sweep")
ReminderManager_execute_reminder_load(e, r) ==
  /\ runs[e].pc = "idle"
  /\ IF e = "job" THEN jobs[r] # None /\ jobs[r] <= now
                  ELSE Missed(reminders[r], now)
  /\ jobs' = IF e = "job" THEN [jobs EXCEPT ![r] = None] ELSE jobs
  /\ IF Loadable(reminders[r])
       THEN /\ runs' = [runs EXCEPT ![e] = [pc |-> "loaded", rid |-> r,
                                            reminder |-> reminders[r]]]
            /\ rlast' = [NoRun EXCEPT !.op = "ReminderManager_execute_reminder_load",
                                      !.rid = r]
       ELSE /\ runs' = runs
            /\ rlast' = [NoRun EXCEPT !.op = "ReminderManager_execute_reminder",
                                      !.rid = r, !.result = "noop"]
  /\ UNCHANGED <<reminders, service_jobs, logs, dispatched>>
  /\ UNCHANGED <<templates, now, polls, votes, last, notices, watch, sessions, passes>>

\* the rest of the run: template, channel, send, the update of the loaded row and
\* its commit, the log rows
ReminderManager_execute_reminder_finish(e, unreachable, failing, unrendered) ==
  LET r == runs[e].rid
      loaded == runs[e].reminder
      st == ReminderManager_execute_reminder([Store EXCEPT !.reminders[r] = loaded], r,
                                             unreachable, failing, unrendered)
  IN /\ runs[e].pc = "loaded"
     /\ LogCount(logs, r) < MaxLogs
     /\ Commit([st EXCEPT !.reminders[r] = Written(reminders[r], loaded, st.reminders[r])],
               "ReminderManager_execute_reminder", r, "returned")
     /\ runs' = [runs EXCEPT ![e] = NoExecution]
     /\ UNCHANGED <<templates, now, polls, votes, last, notices, watch, sessions, passes>>

(***************************************************************************)
(* Specification of the voting surface                                     *)
(***************************************************************************)
Init ==
  /\ now = 0
  /\ polls = [p \in PollIds |-> NoPoll]
  /\ votes = [p \in PollIds |-> [u \in Users |-> NoVotes]]
  /\ last = Idle
  /\ notices = [p \in PollIds |-> 0]
  /\ watch = NoPass
  /\ templates = {}
  /\ reminders = [r \in RemIds |-> NoReminder]
  /\ jobs = [r \in RemIds |-> None]
  /\ service_jobs = [r \in RemIds |-> None]
  /\ logs = [r \in RemIds |-> NoLogs]
  /\ dispatched = [r \in RemIds |-> 0]
  /\ rlast = NoRun
  /\ sessions = [k \in PassIds |-> NoSession]
  /\ passes = [w \in WatcherIds |-> NoWatcherPass]
  /\ runs = [e \in RunIds |-> NoExecution]

\* polls of the voting specification are created with the default duration_minutes=None
CreatePoll ==
  \E nopts \in OptionCounts, m \in BOOLEAN :
     PollService_create_poll(VotePoll, nopts, None, m)

ReactionSyncLegacy ==
  \E u \in Users, R \in SUBSET EmojiIdx : handlers_sync_reaction_votes(VotePoll, u, R)

ReactionSync ==
  \E u \in Users, R \in SUBSET EmojiIdx : features_sync_reaction_votes(VotePoll, u, R)

VoteCommandLegacy ==
  \E u \in Users, toks \in TokenInputs : vote_poll_command(VotePoll, u, toks)

VoteCommand ==
  \E u \in Users, toks \in TokenInputs :
     VotePollCommand_process_command(VotePoll, u, toks)

VoteService ==
  \E u \in Users, idxs \in IndexInputs : PollService_vote(VotePoll, u, idxs)

Next ==
  \/ CreatePoll
  \/ ReactionSyncLegacy
  \/ ReactionSync
  \/ VoteCommandLegacy
  \/ VoteCommand
  \/ VoteService

Spec == Init /\ [][Next]_vars

(***************************************************************************)
(* Specification of poll expiry                                            *)
(***************************************************************************)
CreateTimedPoll ==
  \E p \in PollIds, duration_minutes \in {None} \cup (1..MaxDuration) :
     PollService_create_poll(p, MaxOptions, duration_minutes, FALSE)

WatcherLegacy ==
  \E order \in Orders, unreachable \in SUBSET PollIds, failing \in SUBSET PollIds :
     check_expired_polls(order, unreachable, failing)

Watcher ==
  \E order \in Orders, unreachable \in SUBSET PollIds, failing \in SUBSET PollIds :
     poll_expiry_checker(order, unreachable, failing)

NextExpiry ==
  \/ CreateTimedPoll
  \/ Tick
  \/ WatcherLegacy
  \/ Watcher

SpecExpiry == Init /\ [][NextExpiry]_vars

(***************************************************************************)
(* Specification of overlapping watcher passes                             *)
(***************************************************************************)
WatcherSelectLegacy ==
  \E w \in WatcherIds, order \in Orders : watcher_select(w, "check_expired_polls", order)

WatcherLoopLegacy ==
  \E w \in WatcherIds, unreachable \in SUBSET PollIds, failing \in SUBSET PollIds :
     check_expired_polls_loop(w, unreachable, failing)

WatcherSelect ==
  \E w \in WatcherIds, order \in Orders : watcher_select(w, "poll_expiry_checker", order)

WatcherLoop ==
  \E w \in WatcherIds, unreachable \in SUBSET PollIds, failing \in SUBSET PollIds :
     poll_expiry_checker_loop(w, unreachable, failing)

NextOverlap ==
  \/ CreateTimedPoll
  \/ Tick
  \/ WatcherSelectLegacy
  \/ WatcherLoopLegacy
  \/ WatcherSelect
  \/ WatcherLoop

SpecOverlap == Init /\ [][NextOverlap]_vars

(***************************************************************************)
(* Specification of vote gating: votes and reaction syncs of one user on a *)
(* poll that may be missing, inactive or past its expiry                   *)
(***************************************************************************)
GateUser == "u1"

CreateGatedPoll ==
  \E nopts \in OptionCounts, duration_minutes \in {None} \cup (1..MaxDuration) :
     PollService_create_poll(VotePoll, nopts, duration_minutes, TRUE)

GatedReactionSyncLegacy ==
  \E R \in SUBSET EmojiIdx : handlers_sync_reaction_votes(VotePoll, GateUser, R)

GatedReactionSync ==
  \E R \in SUBSET EmojiIdx : features_sync_reaction_votes(VotePoll, GateUser, R)

GatedVoteCommandLegacy ==
  \E toks \in TokenInputs : vote_poll_command(VotePoll, GateUser, toks)

GatedVoteCommand ==
  \E toks \in TokenInputs : VotePollCommand_process_command(VotePoll, GateUser, toks)

GatedVoteService ==
  \E idxs \in IndexInputs : PollService_vote(VotePoll, GateUser, idxs)

NextGate ==
  \/ CreateGatedPoll
  \/ Tick
  \/ GatedReactionSyncLegacy
  \/ GatedReactionSync
  \/ GatedVoteCommandLegacy
  \/ GatedVoteCommand
  \/ GatedVoteService

SpecGate == Init /\ [][NextGate]_vars

(***************************************************************************)
(* Specification of concurrent vote passes: two passes of one user on one  *)
(* poll, interleaved at their awaits                                       *)
(***************************************************************************)
RaceUser == "u1"

CreateRacePoll == PollService_create_poll(VotePoll, MaxOptions, None, TRUE)

BeginReactionSync ==
  \E k \in PassIds, R \in SUBSET EmojiIdx :
     sync_reaction_votes_begin(k, VotePoll, RaceUser, R)

BeginVoteCommand ==
  \E k \in PassIds, toks \in TokenInputs :
     vote_poll_command_begin(k, VotePoll, RaceUser, toks)

PassDelete == \E k \in PassIds : execute_delete(k)

PassCommit == \E k \in PassIds : commit_pass(k)

NextRace ==
  \/ CreateRacePoll
  \/ BeginReactionSync
  \/ BeginVoteCommand
  \/ PassDelete
  \/ PassCommit

SpecRace == Init /\ [][NextRace]_vars

(***************************************************************************)
(* Specification of reminder scheduling: creation, the scheduler's jobs,   *)
(* the sweep and cancellation                                              *)
(***************************************************************************)
ReminderPoll == "p1"      \* the poll time_before reminders are set on

CreateTemplate == \E name \in TemplateNames : create_template(name)

CreateReminderPoll ==
  \E duration_minutes \in 1..MaxDuration :
     PollService_create_poll(ReminderPoll, MaxOptions, duration_minutes, FALSE)

\* the arguments the reminder commands pass: a trigger_time for specific_time, a
\* poll and minutes_before >= 1 for time_before, interval_minutes >= 1 and
\* max_occurrences >= 1 or unset for interval; specific_time and interval reminders
\* are set on a poll (set_poll_reminder) or on no target (set_custom_reminder)
CreateArgs ==
  {[target_id |-> g, trigger_type |-> "specific_time", trigger_time |-> t,
    minutes_before |-> None, interval_minutes |-> None, max_occurrences |-> None]
      : g \in {NoTarget, ReminderPoll}, t \in Times}
  \cup
  {[target_id |-> ReminderPoll, trigger_type |-> "time_before", trigger_time |-> None,
    minutes_before |-> m, interval_minutes |-> None, max_occurrences |-> None]
      : m \in 1..MaxDuration}
  \cup
  {[target_id |-> g, trigger_type |-> "interval", trigger_time |-> None,
    minutes_before |-> None, interval_minutes |-> i, max_occurrences |-> n]
      : g \in {NoTarget, ReminderPoll}, i \in 1..MaxInterval,
        n \in {None} \cup (1..MaxOccurrences)}

CreateReminderLegacy ==
  \E name \in TemplateNames, a \in CreateArgs :
     ReminderManager_create_reminder(name, a.target_id, a.trigger_type, a)

CreateReminder ==
  \E name \in TemplateNames, a \in CreateArgs :
     ReminderService_create_reminder(name, a.target_id, a.trigger_type, a)

JobLegacy ==
  \E r \in RemIds, unreachable \in SUBSET RemIds, failing \in SUBSET RemIds,
     unrendered \in SUBSET RemIds :
     ReminderManager_job(r, unreachable, failing, unrendered)

SweepLegacy ==
  \E order \in RemOrders, unreachable \in SUBSET RemIds, failing \in SUBSET RemIds,
     unrendered \in SUBSET RemIds :
     ReminderManager_check_pending_reminders(order, unreachable, failing, unrendered)

Sweep == ReminderService_check_pending_reminders

CancelLegacy == \E r \in RemIds : ReminderManager_cancel_reminder(r)

Cancel == \E r \in RemIds : ReminderService_cancel_reminder(r)

NextReminder ==
  \/ CreateTemplate
  \/ CreateReminderPoll
  \/ Tick
  \/ CreateReminderLegacy
  \/ CreateReminder
  \/ JobLegacy
  \/ SweepLegacy
  \/ Sweep
  \/ CancelLegacy
  \/ Cancel

SpecReminder == Init /\ [][NextReminder]_vars

(***************************************************************************)
(* Specification of the executors: _execute_reminder entered for any       *)
(* reminder id at any time, as a scheduler job or a sweep may enter it     *)
(***************************************************************************)
ReminderManager_run(r, unreachable, failing, unrendered) ==
  /\ LogRoom({r})
  /\ LET st == ReminderManager_execute_reminder(Store, r, unreachable, failing, unrendered)
     IN Commit(st, "ReminderManager_execute_reminder", r, Outcome(st, r))
  /\ UNCHANGED <<templates, now, polls, votes, last, notices, watch, sessions, passes, runs>>

ReminderService_run(r, unreachable, failing, unrendered) ==
  /\ LogRoom({r})
  /\ LET st == ReminderService_execute_reminder(Store, r, unreachable, failing, unrendered)
     IN Commit(st, "ReminderService_execute_reminder", r, Outcome(st, r))
  /\ UNCHANGED <<templates, now, polls, votes, last, notices, watch, sessions, passes, runs>>

ExecuteLegacy ==
  \E r \in RemIds, unreachable \in SUBSET RemIds, failing \in SUBSET RemIds,
     unrendered \in SUBSET RemIds :
     ReminderManager_run(r, unreachable, failing, unrendered)

Execute ==
  \E r \in RemIds, unreachable \in SUBSET RemIds, failing \in SUBSET RemIds,
     unrendered \in SUBSET RemIds :
     ReminderService_run(r, unreachable, failing, unrendered)

NextExecutor ==
  \/ CreateTemplate
  \/ CreateReminderPoll
  \/ Tick
  \/ CreateReminderLegacy
  \/ ExecuteLegacy
  \/ Execute
  \/ CancelLegacy
  \/ Cancel

SpecExecutor == Init /\ [][NextExecutor]_vars

(***************************************************************************)
(* Specification of template loss: the executors and the sweep on          *)
(* reminders whose template row has been removed from the database         *)
(***************************************************************************)
\* a row of reminder_templates is removed by direct database access; no function
\* of the bot deletes a template, and the rows of reminders are not touched
DeleteTemplateRow ==
  \E name \in templates :
     /\ templates' = templates \ {name}
     /\ rlast' = [NoRun EXCEPT !.op = "delete_template_row"]
     /\ UNCHANGED <<reminders, jobs, service_jobs, logs, dispatched>>
     /\ UNCHANGED <<now, polls, votes, last, notices, watch, sessions, passes, runs>>

\* a template gets a fresh id: no reminder row of an earlier template of the same
\* name refers to it
CreateFreshTemplate ==
  \E name \in TemplateNames :
     /\ \A r \in RemIds : reminders[r].template # name
     /\ create_template(name)

NextTemplateLoss ==
  \/ CreateFreshTemplate
  \/ DeleteTemplateRow
  \/ Tick
  \/ CreateReminderLegacy
  \/ JobLegacy
  \/ SweepLegacy
  \/ ExecuteLegacy
  \/ Execute

SpecTemplateLoss == Init /\ [][NextTemplateLoss]_vars

(***************************************************************************)
(* Specification of restarts: the schedulers are rebuilt from the reminder *)
(* rows                                                                    *)
(***************************************************************************)
RestartLegacy == ReminderManager_start

Restart == ReminderService_init

NextRestart ==
  \/ CreateTemplate
  \/ Tick
  \/ CreateReminderLegacy
  \/ JobLegacy
  \/ SweepLegacy
  \/ RestartLegacy
  \/ Restart

SpecRestart == Init /\ [][NextRestart]_vars

(***************************************************************************)
(* Specification of executions in flight: the date job and the sweep run   *)
(* _execute_reminder one await at a time, next to cancel                   *)
(***************************************************************************)
ExecuteLoad ==
  \E e \in RunIds, r \in RemIds : ReminderManager_execute_reminder_load(e, r)

ExecuteFinish ==
  \E e \in RunIds, unreachable \in SUBSET RemIds, failing \in SUBSET RemIds,
     unrendered \in SUBSET RemIds :
     ReminderManager_execute_reminder_finish(e, unreachable, failing, unrendered)

NextInFlight ==
  \/ CreateTemplate
  \/ Tick
  \/ CreateReminderLegacy
  \/ ExecuteLoad
  \/ ExecuteFinish
  \/ CancelLegacy

SpecInFlight == Init /\ [][NextInFlight]_vars

(***************************************************************************)
(* Specification of a vote pass next to the Expiry Watcher: one pass of    *)
(* one user on a timed poll, interleaved at its awaits with the clock and  *)
(* the watcher                                                             *)
(***************************************************************************)
ClosingPass == "a"

CreateClosingPoll ==
  \E duration_minutes \in 1..MaxDuration :
     PollService_create_poll(VotePoll, MaxOptions, duration_minutes, TRUE)

ClosingBeginReactionSync ==
  \E R \in SUBSET EmojiIdx : sync_reaction_votes_begin(ClosingPass, VotePoll, RaceUser, R)

ClosingBeginVoteCommand ==
  \E toks \in TokenInputs : vote_poll_command_begin(ClosingPass, VotePoll, RaceUser, toks)

NextClosing ==
  \/ CreateClosingPoll
  \/ Tick
  \/ ClosingBeginReactionSync
  \/ ClosingBeginVoteCommand
  \/ PassDelete
  \/ PassCommit
  \/ WatcherLegacy

SpecClosing == Init /\ [][NextClosing]_vars

(***************************************************************************)
(* Properties of the voting surface                                        *)
(***************************************************************************)
\* the intended set of a committed pass, from its input: the reacted emojis that are
\* recognized and index an option of the poll, or the options the command selected
Intended(l) ==
  IF l.op \in SyncOps
    THEN {e \in l.arg : RecognizedEmoji(e) /\ e < polls[l.poll].nopts}
    ELSE l.arg

C2_AtMostOneRowIfNotMulti ==
  \A p \in PollIds, u \in Users :
     (polls[p].exists /\ ~polls[p].allow_multiple_votes) => RowCount(votes, p, u) <= 1

SyncStep(p, u, R) ==
  handlers_sync_reaction_votes(p, u, R) \/ features_sync_reaction_votes(p, u, R)

\* C3: a reaction sync of (poll, user) that directly follows a committed reaction sync
\* of the same pair and sees the same reaction set leaves every Vote row as it was.
C3_ReactionSyncIdempotent ==
  [][\A u \in Users, R \in SUBSET EmojiIdx :
        ( /\ last.op \in SyncOps /\ last.committed
          /\ last.poll = VotePoll /\ last.user = u /\ last.arg = R
          /\ SyncStep(VotePoll, u, R) )
        => votes' = votes]_vars

\* a repeated reaction sync that found rows to keep
C3_Witness ==
  last.committed /\ last.repeat /\ Intended(last) # {}

CommandStep(p, u, toks) ==
  vote_poll_command(p, u, toks) \/ VotePollCommand_process_command(p, u, toks)

\* C4 (as claimed): when a user without votes on the poll votes by command, the tally
\* of each distinct selected option (number n, index n-1) grows by exactly one and
\* every other tally is unchanged, also when a number is listed more than once.
C4_VoteThenResults ==
  [][\A u \in Users, toks \in TokenInputs :
        ( /\ RowCount(votes, VotePoll, u) = 0
          /\ CommandStep(VotePoll, u, toks)
          /\ last'.committed )
        => \A i \in OptionIdx :
              get_results(votes', VotePoll)[i] =
                 get_results(votes, VotePoll)[i] + (IF i \in Selected(toks) THEN 1 ELSE 0)]_vars

\* C5: every committed pass, whichever channel it comes from and whichever channel
\* produced the votes it finds, leaves the user with rows for exactly its intended
\* set and leaves every other user's rows alone, so the tally changes only by the
\* rows of the user's former pass going and those of this pass coming.
C5_LatestPassWins ==
  [][last'.committed =>
        LET p == last'.poll
            u == last'.user
        IN /\ VotedIdx(votes', p, u) = {i \in OptionIdx : i \in Intended(last')}
           /\ \A w \in Users \ {u} : votes'[p][w] = votes[p][w]
           /\ \A i \in OptionIdx :
                 get_results(votes', p)[i] - votes'[p][u][i]
                    = get_results(votes, p)[i] - votes[p][u][i]]_vars

\* a reaction sync that replaced rows set by a command of the same user
C5_Witness ==
  /\ last.committed /\ last.op \in SyncOps /\ last.over = "command" /\ last.stale
  /\ Intended(last) # {}

\* one run of any vote handler for (p, u)
VoteStep(p, u) ==
  \/ \E R \in SUBSET EmojiIdx : SyncStep(p, u, R)
  \/ \E toks \in TokenInputs : CommandStep(p, u, toks)
  \/ \E idxs \in IndexInputs : PollService_vote(p, u, idxs)

\* the claim's cases: the poll has no row, is not active, or the clock is past its
\* expires_at
Closed(poll, t) ==
  ~poll.exists \/ ~poll.is_active \/ (poll.expires_at # None /\ t > poll.expires_at)

\* C11: a command vote or a reaction sync on a poll that is missing, inactive or
\* past expires_at is rejected: it reports failure, no Vote row is inserted or
\* deleted, and the poll is left as it was except that a poll that was still active
\* past its expiry is set inactive.
C11_ClosedPollRejects ==
  [][\A u \in Users :
        (Closed(polls[VotePoll], now) /\ VoteStep(VotePoll, u))
        => /\ votes' = votes
           /\ ~last'.committed /\ ~last'.ok /\ ~last'.raised
           /\ polls' = IF polls[VotePoll].exists /\ polls[VotePoll].is_active
                         THEN [polls EXCEPT ![VotePoll].is_active = FALSE]
                         ELSE polls]_vars

\* a vote on a poll past its expiry was rejected: the poll is inactive and the user
\* kept the rows of an earlier vote
C11_Witness ==
  /\ last.op \in SyncOps \cup CommandOps /\ last.why = "expired"
  /\ ~polls[last.poll].is_active /\ Closed(polls[last.poll], now)
  /\ RowCount(votes, last.poll, last.user) > 0

\* a command input that names an option number outside 1..nopts
OutOfRange(toks, nopts) ==
  \E t \in Range(toks) \ {EmptyTok, BadTok} : t < 1 \/ t > nopts

\* C12: a command vote on an open poll that names any option number outside
\* 1..len(options) is rejected as a whole: it reports failure, every Vote row is as
\* before (none recorded for the valid numbers, none of the user's earlier rows
\* removed) and the poll is unchanged.  PollService.vote takes the numbers 0-based.
C12_OutOfRangeRejected ==
  [][\A u \in Users :
        ( /\ ~Closed(polls[VotePoll], now)
          /\ \/ \E toks \in TokenInputs :
                   OutOfRange(toks, polls[VotePoll].nopts) /\ CommandStep(VotePoll, u, toks)
             \/ \E idxs \in IndexInputs :
                   /\ OutOfRange([i \in DOMAIN idxs |-> idxs[i] + 1], polls[VotePoll].nopts)
                   /\ PollService_vote(VotePoll, u, idxs) )
        => /\ votes' = votes /\ polls' = polls
           /\ ~last'.committed /\ ~last'.ok]_vars

\* a command was rejected for an option number out of range while the user had rows
\* from an earlier vote
C12_Witness ==
  /\ last.op \in CommandOps /\ last.why = "range"
  /\ RowCount(votes, last.poll, last.user) > 0

\* C13 (as claimed): a vote or a reaction reconciliation reports success exactly
\* when the rows were replaced and committed, and failure exactly when the persisted
\* votes are as before; no run reports failure, or raises, after its commit.
C13_ReportMatchesCommit ==
  last.op \in SyncOps \cup CommandOps =>
     /\ last.ok <=> last.committed
     /\ last.committed => ~last.raised

\* C19 (as claimed): when two passes of the same (poll, user) overlap, the rows that
\* are persisted once both are over are exactly the intended set of the pass that
\* committed last, one row per option: never the union or a mixture of both sets.
C19_LastCommitWins ==
  ((\A k \in PassIds : sessions[k].pc = "idle") /\ last.committed)
  => \A i \in OptionIdx :
        votes[last.poll][last.user][i] = IF i \in Intended(last) THEN 1 ELSE 0

\* C20: within one pass the delete and the insert take effect as one unit and the
\* insert never precedes the delete.  A concurrent reader sees the rows of (poll,
\* user) change only at the commit of a pass that has executed its DELETE, and then
\* with the deleted rows gone and every row of the pass present at once; as long as
\* a pass has deleted and not committed, the reader still sees the rows it deleted.
C20_PassIsAtomic ==
  [][\A k \in PassIds :
        LET s == sessions[k]
            seen == votes[s.poll][s.user]
            seen_after == votes'[s.poll][s.user]
        IN /\ (s.pc # "idle" /\ sessions'[k].pc = "idle") => s.pc = "deleted"
           /\ (s.pc = "deleted" /\ sessions'[k].pc = "idle")
                 => \A i \in OptionIdx :
                       seen_after[i] = seen[i] - s.del[i] + Count(s.ins, i)
           /\ (\A j \in PassIds : sessions[j].pc = "deleted" => sessions'[j].pc = "deleted")
                 => votes' = votes
           /\ sessions'[k].pc = "deleted"
                 => \A i \in OptionIdx :
                       votes'[sessions'[k].poll][sessions'[k].user][i] >= sessions'[k].del[i]]_vars

\* a pass has executed its DELETE on the rows of an earlier vote and has not
\* committed its new rows: the table still shows the earlier rows
C20_Witness ==
  \E k \in PassIds :
     /\ sessions[k].pc = "deleted" /\ sessions[k].del # NoVotes
     /\ sessions[k].ins # <<>>
     /\ votes[sessions[k].poll][sessions[k].user] = sessions[k].del
     /\ Range(sessions[k].ins) # VotedIdx(votes, sessions[k].poll, sessions[k].user)

\* C28 (as claimed): once is_active of a poll is committed false, no Vote row of
\* the poll is inserted or deleted, also not by a pass that loaded the poll as active
\* before the watcher closed it; and is_active never returns to true.
C28_ClosedPollKeepsVotes ==
  [][\A p \in PollIds :
        (polls[p].exists /\ ~polls[p].is_active)
        => votes'[p] = votes[p] /\ ~polls'[p].is_active]_vars

\* is_active of a poll never returns from false to true
C28_PollStaysClosed ==
  [][\A p \in PollIds :
        (polls[p].exists /\ ~polls[p].is_active) => ~polls'[p].is_active]_vars

\* C29 (as claimed): a command vote vote(P, U, S) that has committed goes on to its
\* reaction cleanup, and the cleanup removes U's reactions only for options that
\* were in U's previous set and are not in S.
C29_CleanupAfterCommandVote ==
  [][\A u \in Users, toks \in TokenInputs :
        (vote_poll_command(VotePoll, u, toks) /\ last'.committed)
        => /\ ~last'.raised
           /\ cleanup_removals(VotedIdx(votes, VotePoll, u))
                 \subseteq (VotedIdx(votes, VotePoll, u) \ Selected(toks))]_vars

(***************************************************************************)
(* Properties of poll expiry                                               *)
(***************************************************************************)
WatcherStep == WatcherLegacy \/ Watcher

\* C8 (as claimed): one watcher pass sets every poll that is active with
\* expires_at <= now inactive and leaves every other poll as it was; a pass that
\* directly follows a pass changes no poll and sends no notification.
C8_WatcherPassClosesAllDue ==
  [][WatcherStep =>
        /\ \A p \in PollIds :
              polls'[p] = IF Due(polls[p], now)
                            THEN [polls[p] EXCEPT !.is_active = FALSE] ELSE polls[p]
        /\ watch.fresh => (polls' = polls /\ notices' = notices)]_vars

\* C21 (as claimed): in a watcher pass a failure to notify the channel of one
\* expired poll neither undoes that poll's deactivation nor keeps the other expired
\* polls of the pass from being deactivated and notified: after the pass every poll
\* that was active with expires_at <= now is inactive, and each of them whose own
\* channel is reachable has been notified.
C21_NotifyFailureIsolated ==
  [][\A order \in Orders, unreachable \in SUBSET PollIds, failing \in SUBSET PollIds :
        ( \/ check_expired_polls(order, unreachable, failing)
          \/ poll_expiry_checker(order, unreachable, failing) )
        => \A p \in PollIds :
              Due(polls[p], now)
              => /\ ~polls'[p].is_active
                 /\ p \notin unreachable \cup failing => notices'[p] = notices[p] + 1]_vars

\* C22 (as claimed): every poll gets at most one expiry notification over its
\* lifetime, across any number of watcher passes and also when two passes overlap.
C22_AtMostOneNotice ==
  \A p \in PollIds : notices[p] <= 1

(***************************************************************************)
(* Properties of reminders                                                 *)
(***************************************************************************)
ExecOps == {"ReminderManager_execute_reminder", "ReminderService_execute_reminder",
            "ReminderManager_job"}

JobsOf(op, js, sjs) == IF op = "ReminderService_execute_reminder" THEN sjs ELSE js

CreateStep(a) ==
  \E name \in TemplateNames :
     \/ ReminderManager_create_reminder(name, a.target_id, a.trigger_type, a)
     \/ ReminderService_create_reminder(name, a.target_id, a.trigger_type, a)

\* C7 (as claimed): creating a time_before reminder with minutes m at time c on a
\* poll with expires_at = T stores next_trigger = T - m and registers a job for
\* that time when T - m > c, and leaves next_trigger unset and registers no job
\* when T - m <= c; a time_before reminder without next_trigger is never dispatched.
C7_TimeBeforeTrigger ==
  [][/\ \A a \in CreateArgs :
          ( /\ a.trigger_type = "time_before"
            /\ TemplateNames \subseteq templates /\ FreshIds # {}
            /\ polls[a.target_id].exists /\ polls[a.target_id].expires_at # None
            /\ CreateStep(a) )
          => LET r == FreshId
                 T == polls[a.target_id].expires_at
                 m == a.minutes_before
             IN IF T - m > now
                  THEN /\ reminders'[r].exists
                       /\ reminders'[r].next_trigger = T - m
                       /\ (jobs'[r] = T - m \/ service_jobs'[r] = T - m)
                  ELSE /\ reminders'[r].next_trigger = None
                       /\ jobs'[r] = None /\ service_jobs'[r] = None
     /\ \A r \in RemIds :
          (reminders'[r].trigger_type = "time_before" /\ reminders'[r].next_trigger = None)
          => dispatched'[r] = 0]_vars

ExecStep(r) ==
  \/ \E unreachable \in SUBSET RemIds, failing \in SUBSET RemIds,
        unrendered \in SUBSET RemIds :
        ReminderManager_run(r, unreachable, failing, unrendered)
  \/ \E unreachable \in SUBSET RemIds, failing \in SUBSET RemIds,
        unrendered \in SUBSET RemIds :
        ReminderService_run(r, unreachable, failing, unrendered)

\* C9: a run of the executor on a reminder that is missing or inactive (cancelled
\* before the run started, or finished) dispatches nothing, appends no log row and
\* changes no reminder field and no scheduler job.
C9_ExecuteInactiveIsNoop ==
  [][\A r \in RemIds :
        (ExecStep(r) /\ (~reminders[r].exists \/ ~reminders[r].is_active))
        => /\ reminders' = reminders /\ logs' = logs /\ dispatched' = dispatched
           /\ jobs' = jobs /\ service_jobs' = service_jobs]_vars

\* the executor ran on a reminder that had been cancelled before it ever fired
C9_Witness ==
  \E r \in RemIds :
     /\ reminders[r].exists /\ ~reminders[r].is_active
     /\ reminders[r].occurrence_count = 0 /\ dispatched[r] = 0
     /\ rlast.op \in ExecOps /\ rlast.rid = r /\ rlast.result = "noop"

\* C15: when the dispatch of an active reminder fails, because the channel is not
\* found or because channel.send raises, the run appends one 'failed' log row that
\* carries the error text, appends no 'sent' or 'success' row, dispatches nothing and
\* leaves the reminder row (occurrence_count, is_active, next_trigger,
\* last_triggered) as it was.
C15_FailedDispatchLeavesReminder ==
  [][\A r \in RemIds, unreachable \in SUBSET RemIds, failing \in SUBSET RemIds :
        ( /\ reminders[r].exists /\ reminders[r].is_active
          /\ reminders[r].template \in templates
          /\ r \in unreachable \cup failing
          /\ \/ \E unrendered \in SUBSET RemIds :
                   ReminderManager_run(r, unreachable, failing, unrendered)
             \/ /\ reminders[r].target_id = NoTarget
                /\ ReminderService_run(r, unreachable, failing, {}) )
        => /\ logs'[r] = [logs[r] EXCEPT !.failed = @ + 1]
           /\ rlast'.error = IF r \in unreachable THEN ChannelNotFound ELSE SendError
           /\ dispatched' = dispatched
           /\ reminders' = reminders]_vars

\* a recurring reminder that had been dispatched before is still active and
\* unchanged after a run whose channel.send raised
C15_Witness ==
  \E r \in RemIds :
     /\ rlast.op \in ExecOps /\ rlast.rid = r /\ rlast.error = SendError
     /\ reminders[r].is_active /\ reminders[r].occurrence_count > 0
     /\ dispatched[r] = reminders[r].occurrence_count
     /\ reminders[r].last_triggered < now

\* a run of the legacy executor on r as a scheduler job, with a dispatch that fails
FailedJob(r) ==
  \E unreachable \in SUBSET RemIds, failing \in SUBSET RemIds,
     unrendered \in SUBSET RemIds :
     /\ r \in unreachable \cup failing
     /\ reminders[r].exists /\ reminders[r].is_active
     /\ reminders[r].template \in templates
     /\ ReminderManager_job(r, unreachable, failing, unrendered)

\* C16 (as claimed): a failed delivery does not end the recurrence of a recurring
\* reminder, which stays active for its later occurrences, while a one-shot reminder
\* whose delivery failed is left inactive and is never dispatched later.
C16_FailedOneShotEnds ==
  [][\A r \in RemIds :
        /\ FailedJob(r) => (reminders'[r].is_active <=> reminders[r].is_recurring)
        /\ ( /\ reminders[r].exists /\ ~reminders[r].is_recurring
             /\ logs[r].failed > 0 /\ dispatched[r] = 0 )
           => dispatched'[r] = 0]_vars

C18_MissingPlaceholderLogged ==
  [][\A r \in RemIds :
        ( /\ reminders[r].exists /\ reminders[r].is_active
          /\ reminders[r].template \in templates
          /\ \/ ReminderManager_run(r, {}, {}, {r})
             \/ /\ reminders[r].target_id = NoTarget
                /\ ReminderService_run(r, {}, {}, {r}) )
        => /\ logs'[r] = [logs[r] EXCEPT !.failed = @ + 1]
           /\ rlast'.error = MissingKey
           /\ dispatched' = dispatched
           /\ rlast'.result # "raised"]_vars

CancelStep(r) == ReminderManager_cancel_reminder(r) \/ ReminderService_cancel_reminder(r)

\* C10 (as claimed): cancel of an id without reminder returns false and changes
\* nothing; cancel of an existing reminder returns true and leaves is_active =
\* false, whether or not the scheduler holds a job for the reminder.
C10_CancelResult ==
  [][\A r \in RemIds :
        CancelStep(r)
        => IF ~reminders[r].exists
             THEN /\ rlast'.result = "false"
                  /\ reminders' = reminders /\ jobs' = jobs /\ service_jobs' = service_jobs
             ELSE rlast'.result = "true" /\ ~reminders'[r].is_active]_vars

\* C23 (as claimed): after a restart the scheduler holds a job for reminder r, run
\* at r.next_trigger, if and only if r is active with next_trigger > now at the
\* rebuild; a reminder whose trigger passed during the downtime is not registered.
C23_RebuildMatchesStore ==
  [][\A r \in RemIds :
        /\ ReminderManager_start
           => jobs'[r] = IF reminders[r].exists /\ reminders[r].is_active
                            /\ reminders[r].next_trigger # None
                            /\ reminders[r].next_trigger > now
                           THEN reminders[r].next_trigger ELSE None
        /\ ReminderService_init
           => service_jobs'[r] = IF reminders[r].exists /\ reminders[r].is_active
                                    /\ reminders[r].next_trigger # None
                                    /\ reminders[r].next_trigger > now
                                   THEN reminders[r].next_trigger ELSE None]_vars

\* the rebuild of ReminderManager alone matches the reminder rows
C23_LegacyRebuildMatchesStore ==
  [][\A r \in RemIds :
        ReminderManager_start
        => jobs'[r] = IF reminders[r].exists /\ reminders[r].is_active
                         /\ reminders[r].next_trigger # None
                         /\ reminders[r].next_trigger > now
                        THEN reminders[r].next_trigger ELSE None]_vars

\* C24 (as claimed): a pass of the missed-reminder sweep executes every due
\* reminder, whatever exception the pass meets: each of them gets its attempt, which
\* shows as a new row of the execution log.
C24_SweepExecutesEveryDue ==
  [][\A r \in RemIds :
        (SweepLegacy \/ Sweep) /\ Missed(reminders[r], now)
        => LogCount(logs', r) > LogCount(logs, r)]_vars

\* the sweep of ReminderManager alone executes every due reminder
C24_LegacySweepExecutesEveryDue ==
  [][\A r \in RemIds :
        SweepLegacy /\ Missed(reminders[r], now)
        => LogCount(logs', r) > LogCount(logs, r)]_vars

\* C25 (as claimed): a run of the executor that gets past its load check appends
\* exactly one row to the execution log, with status sent or failed ('sent' exactly
\* when the notification was dispatched), and leaves the rows already there.
C25_OneLogRowPerAttempt ==
  [][\A r \in RemIds :
        (ExecStep(r) /\ reminders[r].exists /\ reminders[r].is_active)
        => /\ LogCount(logs', r) = LogCount(logs, r) + 1
           /\ logs'[r].success = logs[r].success
           /\ logs'[r].sent >= logs[r].sent /\ logs'[r].failed >= logs[r].failed
           /\ (logs'[r].sent = logs[r].sent + 1) <=> (dispatched'[r] = dispatched[r] + 1)]_vars

\* C26: an inactive reminder stays inactive under every operation, also under the
\* commit of an execution that was in flight when cancel committed; and a
\* notification for an inactive reminder comes only from an execution that had
\* loaded the row while it was active.
C26_InactiveIsTerminal ==
  [][\A r \in RemIds :
        (reminders[r].exists /\ ~reminders[r].is_active)
        => /\ reminders'[r].exists /\ ~reminders'[r].is_active
           /\ dispatched'[r] # dispatched[r]
              => \E e \in RunIds : /\ runs[e].pc = "loaded" /\ runs[e].rid = r
                                   /\ runs[e].reminder.is_active
                                   /\ runs'[e].pc = "idle"]_vars

\* an execution in flight delivered and committed after cancel had committed: the
\* reminder, recurring without cap, has a counted occurrence and is inactive
C26_Witness ==
  \E r \in RemIds :
     /\ rlast.op = "ReminderManager_execute_reminder" /\ rlast.rid = r
     /\ rlast.text # "none"
     /\ reminders[r].is_recurring /\ reminders[r].max_occurrences = None
     /\ ~reminders[r].is_active
     /\ reminders[r].occurrence_count > 0

\* C27 (as claimed): whenever no execution of a reminder is in flight, the number
\* of notifications dispatched for it equals its occurrence_count, and the count
\* does not exceed max_occurrences when that is set.
C27_DispatchesMatchCount ==
  \A r \in RemIds :
     (\A e \in RunIds : ~(runs[e].pc = "loaded" /\ runs[e].rid = r))
     => /\ dispatched[r] = reminders[r].occurrence_count
        /\ reminders[r].max_occurrences # None
           => reminders[r].occurrence_count <= reminders[r].max_occurrences

\* C30 (as claimed): a specific_time reminder is never marked recurring, is
\* dispatched at most once and not before its stored trigger_time, and is inactive
\* once it has been dispatched.
C30_SpecificTimeFiresOnce ==
  \A r \in RemIds :
     (reminders[r].exists /\ reminders[r].trigger_type = "specific_time")
     => /\ ~reminders[r].is_recurring
        /\ dispatched[r] <= 1
        /\ dispatched[r] >= 1 => /\ now >= reminders[r].trigger_time
                                 /\ ~reminders[r].is_active

TypeOK ==
  /\ now \in Times
  /\ \A p \in PollIds : polls[p].is_active \in BOOLEAN
  /\ \A p \in PollIds, u \in Users, i \in OptionIdx : votes[p][u][i] \in 0..MaxTokens
  /\ \A p \in PollIds : notices[p] \in 0..Cardinality(WatcherIds)
  /\ templates \subseteq TemplateNames
  /\ \A r \in RemIds :
        /\ reminders[r].is_active \in BOOLEAN
        /\ reminders[r].is_active => reminders[r].exists
        /\ LogCount(logs, r) <= MaxLogs + 1
        /\ dispatched[r] <= MaxLogs

====
